---- MODULE Spec2Model ----
(***************************************************************************)
(* unidecode-rs: Unicode -> ASCII transliteration.                         *)
(*                                                                         *)
(* Strings are sequences of bytes (0..255).  A Rust &str is the UTF-8      *)
(* encoding of a sequence of code points; Option<&str> is a record         *)
(* [some, val].  Cursors (i, j) are 0-based byte offsets as in the code,   *)
(* so byte i of s is s[i + 1].                                             *)
(***************************************************************************)
EXTENDS Integers, Sequences, FiniteSets, TLC

VARIABLES
    api,          \* "rust": crate entry points, "py": the Python binding
    errors,       \* binding argument errors: Option<&str>
    replace_str,  \* binding argument replace_str: Option<&str>
    input,        \* the &str being transliterated (UTF-8 bytes)
    policy,       \* ErrorsPolicy of the call
    pc,           \* position of the call
    estimated,    \* Pass 1 accumulator
    j,            \* Pass 1 position of input.chars() (byte offset)
    capacity,     \* String::with_capacity(estimated)
    out,          \* output String
    char_index,   \* index in chars for strict error reporting
    i,            \* Pass 2 byte cursor
    error_index,  \* TransliterationResult.error_index
    result,       \* Result<String, usize> of unidecode_with_policy_result
    py_result,    \* PyResult<String> of the binding
    unlisted      \* the reference's answers at the code points of the input
                  \* that no checked-in block file and no test pins: a
                  \* function from these code points to their answers

vars == <<api, errors, replace_str, input, policy, pc, estimated, j, capacity,
          out, char_index, i, error_index, result, py_result, unlisted>>

-----------------------------------------------------------------------------
(* Option<T> *)

None == [some |-> FALSE, val |-> <<>>]

Some(v) == [some |-> TRUE, val |-> v]

-----------------------------------------------------------------------------
(* UTF-8 (char::len_utf8, str::chars, u8::is_ascii, str::is_ascii) *)

u8_is_ascii(b) == b < 128

str_is_ascii(s) == \A n \in 1..Len(s) : u8_is_ascii(s[n])

len_utf8(cp) ==
    IF cp < 128 THEN 1 ELSE IF cp < 2048 THEN 2 ELSE IF cp < 65536 THEN 3 ELSE 4

encode_utf8(cp) ==
    IF cp < 128 THEN <<cp>>
    ELSE IF cp < 2048 THEN <<192 + (cp \div 64), 128 + (cp % 64)>>
    ELSE IF cp < 65536
        THEN <<224 + (cp \div 4096), 128 + ((cp \div 64) % 64), 128 + (cp % 64)>>
    ELSE <<240 + (cp \div 262144), 128 + ((cp \div 4096) % 64),
           128 + ((cp \div 64) % 64), 128 + (cp % 64)>>

\* input[at..].chars().next().unwrap() as u32, for a char boundary `at`
next_char(s, at) ==
    LET b0 == s[at + 1] IN
    IF b0 < 128 THEN b0
    ELSE IF b0 < 224 THEN (b0 - 192) * 64 + (s[at + 2] - 128)
    ELSE IF b0 < 240
        THEN (b0 - 224) * 4096 + (s[at + 2] - 128) * 64 + (s[at + 3] - 128)
    ELSE (b0 - 240) * 262144 + (s[at + 2] - 128) * 4096
         + (s[at + 3] - 128) * 64 + (s[at + 4] - 128)

RECURSIVE chars_from(_, _)
chars_from(s, at) ==
    IF at >= Len(s) THEN <<>>
    ELSE LET cp == next_char(s, at) IN <<cp>> \o chars_from(s, at + len_utf8(cp))

\* s.chars() collected
chars(s) == chars_from(s, 0)

RECURSIVE to_str(_)
\* the String made of the code points cps
to_str(cps) ==
    IF cps = <<>> THEN <<>> ELSE encode_utf8(Head(cps)) \o to_str(Tail(cps))

-----------------------------------------------------------------------------
(* Override table and its binary search (lib.rs) *)

MATH_ALPHA_OVERRIDES == <<
    <<119808, <<65>>>>, <<119809, <<66>>>>, <<119810, <<67>>>>, <<119811, <<68>>>>,
    <<119812, <<69>>>>, <<119813, <<70>>>>, <<119814, <<71>>>>, <<119815, <<72>>>>,
    <<119816, <<73>>>>, <<119817, <<74>>>>, <<119818, <<75>>>>, <<119819, <<76>>>>,
    <<119820, <<77>>>>, <<119821, <<78>>>>, <<119822, <<79>>>>, <<119823, <<80>>>>,
    <<119824, <<81>>>>, <<119825, <<82>>>>, <<119826, <<83>>>>, <<119827, <<84>>>>,
    <<119828, <<85>>>>, <<119829, <<86>>>>, <<119830, <<87>>>>, <<119831, <<88>>>>,
    <<119832, <<89>>>>, <<119833, <<90>>>>, <<119834, <<97>>>>, <<119835, <<98>>>>,
    <<119836, <<99>>>>, <<119837, <<100>>>>, <<119838, <<101>>>>, <<119839, <<102>>>>,
    <<119840, <<103>>>>, <<119841, <<104>>>>, <<119842, <<105>>>>, <<119843, <<106>>>>,
    <<119844, <<107>>>>, <<119845, <<108>>>>, <<119846, <<109>>>>, <<119847, <<110>>>>,
    <<119848, <<111>>>>, <<119849, <<112>>>>, <<119850, <<113>>>>, <<119851, <<114>>>>,
    <<119852, <<115>>>>, <<119853, <<116>>>>, <<119854, <<117>>>>, <<119855, <<118>>>>,
    <<119856, <<119>>>>, <<119857, <<120>>>>, <<119858, <<121>>>>, <<119859, <<122>>>>,
    <<120019, <<84>>>>, <<120035, <<116>>>>, <<120173, <<104>>>>, <<120139, <<84>>>>,
    <<120134, <<72>>>>, <<120124, <<69>>>>, <<120191, <<84>>>>, <<120186, <<72>>>>,
    <<120176, <<69>>>>, <<120783, <<48>>>>, <<120784, <<49>>>>, <<120785, <<50>>>>,
    <<120786, <<51>>>>, <<120787, <<52>>>>, <<120788, <<53>>>>, <<120789, <<54>>>>,
    <<120790, <<55>>>>, <<120791, <<56>>>>, <<120792, <<57>>>>
>>

RECURSIVE override_search(_, _, _)
\* the while loop of lookup_override, from the bounds lo, hi
override_search(cp, lo, hi) ==
    IF lo < hi
    THEN LET mid == (lo + hi) \div 2
             k == MATH_ALPHA_OVERRIDES[mid + 1][1]
             v == MATH_ALPHA_OVERRIDES[mid + 1][2]
         IN  IF k = cp THEN Some(v)
             ELSE IF k < cp THEN override_search(cp, mid + 1, hi)
             ELSE override_search(cp, lo, mid)
    ELSE None

lookup_override(cp) == override_search(cp, 0, Len(MATH_ALPHA_OVERRIDES))

-----------------------------------------------------------------------------
(* The reference mapping build.rs queries, `_u(chr(cp))` of Python         *)
(* Unidecode, and writes into the block files of src/unidecode_table/.     *)
(* Pairs <<code point, transliteration>>.  Two block files are checked in  *)
(* and the tests fix further answers; the answers at the other code points *)
(* of the input are the variable `unlisted`, one answer per code point.    *)

\* src/unidecode_table/26.rs, as generated
BLOCK_26 == <<
    <<9812, <<119, 104, 105, 116, 101, 32, 107, 105, 110, 103>>>>,  \* white king
    <<9813, <<119, 104, 105, 116, 101, 32, 113, 117, 101, 101, 110>>>>,  \* white queen
    <<9814, <<119, 104, 105, 116, 101, 32, 114, 111, 111, 107>>>>,  \* white rook
    <<9815, <<119, 104, 105, 116, 101, 32, 98, 105, 115, 104, 111, 112>>>>,  \* white bishop
    <<9816, <<119, 104, 105, 116, 101, 32, 107, 110, 105, 103, 104, 116>>>>,  \* white knight
    <<9817, <<119, 104, 105, 116, 101, 32, 112, 97, 119, 110>>>>,  \* white pawn
    <<9818, <<98, 108, 97, 99, 107, 32, 107, 105, 110, 103>>>>,  \* black king
    <<9819, <<98, 108, 97, 99, 107, 32, 113, 117, 101, 101, 110>>>>,  \* black queen
    <<9820, <<98, 108, 97, 99, 107, 32, 114, 111, 111, 107>>>>,  \* black rook
    <<9821, <<98, 108, 97, 99, 107, 32, 98, 105, 115, 104, 111, 112>>>>,  \* black bishop
    <<9822, <<98, 108, 97, 99, 107, 32, 107, 110, 105, 103, 104, 116>>>>,  \* black knight
    <<9823, <<98, 108, 97, 99, 107, 32, 112, 97, 119, 110>>>>,  \* black pawn
    <<9824, <<115, 112, 97, 100, 101, 115>>>>,  \* spades
    <<9825, <<104, 101, 97, 114, 116, 115>>>>,  \* hearts
    <<9826, <<100, 105, 97, 109, 111, 110, 100, 115>>>>,  \* diamonds
    <<9827, <<99, 108, 117, 98, 115>>>>,  \* clubs
    <<9828, <<115, 112, 97, 100, 101, 115>>>>,  \* spades
    <<9829, <<104, 101, 97, 114, 116, 115>>>>,  \* hearts
    <<9830, <<100, 105, 97, 109, 111, 110, 100, 115>>>>,  \* diamonds
    <<9831, <<99, 108, 117, 98, 115>>>>,  \* clubs
    <<9839, <<35>>>>  \* #
>>

\* the entries of src/unidecode_table/1f6.rs, a file of an earlier generation
\* over the same reference (block 0x1F6)
BLOCK_1F6 == <<
    <<128624, <<101, 116>>>>,  \* et
    <<128625, <<101, 116>>>>,
    <<128626, <<101, 116>>>>,
    <<128627, <<101, 116>>>>,
    <<128628, <<38>>>>,        \* &
    <<128629, <<38>>>>,
    <<128630, <<34>>>>,        \* "
    <<128631, <<34>>>>,
    <<128632, <<44, 44>>>>,    \* ,,
    <<128633, <<33, 63>>>>,    \* !?
    <<128634, <<33, 63>>>>,
    <<128635, <<33, 63>>>>
>>

\* tests::errors_strict: 'é' maps to 'e'
STRICT_SAMPLE == << <<233, <<101>>>> >>

\* tests::simple: "d\u{E9}j\u{E0}" gives "deja", so U+00E0 gives "a"
SIMPLE_SAMPLE == << <<224, <<97>>>> >>

\* spec_cases.rs circled_latin_subset: U+24D0 + i gives 'a' + i, i in 0..26
CIRCLED_LATIN == [n \in 1..26 |-> <<9424 + (n - 1), <<97 + (n - 1)>>>>]

\* spec_cases.rs latin1_basic: each case is one character and its output.
\* The literals of spec_cases.rs are stored double-encoded; they are read as
\* the characters they encode. U+00E9 is above; the literal of "Th" has lost
\* its second byte and is read as U+00DE, the capital of U+00FE.
LATIN1_BASIC == <<
    <<201, <<69>>>>,        \* U+00C9 -> E
    <<196, <<65>>>>,        \* U+00C4 -> A
    <<228, <<97>>>>,        \* U+00E4 -> a
    <<214, <<79>>>>,        \* U+00D6 -> O
    <<246, <<111>>>>,       \* U+00F6 -> o
    <<220, <<85>>>>,        \* U+00DC -> U
    <<252, <<117>>>>,       \* U+00FC -> u
    <<223, <<115, 115>>>>,  \* U+00DF -> ss
    <<222, <<84, 104>>>>,   \* U+00DE -> Th
    <<254, <<116, 104>>>>,  \* U+00FE -> th
    <<198, <<65, 69>>>>,    \* U+00C6 -> AE
    <<230, <<97, 101>>>>    \* U+00E6 -> ae
>>

\* the answers the checked-in block files and the one-character tests with a
\* literal output fix; no code point twice
PINNED_PAIRS ==
    BLOCK_26 \o BLOCK_1F6 \o STRICT_SAMPLE \o SIMPLE_SAMPLE \o CIRCLED_LATIN
    \o LATIN1_BASIC

\* the pairs as a mapping from code point to transliteration
PinnedMap ==
    [cp \in {PINNED_PAIRS[n][1] : n \in 1..Len(PINNED_PAIRS)} |->
        PINNED_PAIRS[CHOOSE n \in 1..Len(PINNED_PAIRS) : PINNED_PAIRS[n][1] = cp][2]]

\* code points fixed to have no entry: the rest of blocks 0x26 and 0x1F6
\* (a block file lists every entry of its block), and U+A500 and U+1EFF
\* (spec_cases.rs unmapped_returns_empty, partial_table_empty_example)
PinnedAbsent ==
    ((9728..9983) \cup (128512..128767) \cup {42240, 7935}) \ DOMAIN PinnedMap

\* lookup_paths.rs sample_multiple_blocks: the output for the one character
\* contains the fragment
TEST_SAMPLES == <<
    <<920, <<84, 104>>>>,     \* U+0398: contains Th
    <<1046, <<90, 104>>>>     \* U+0416: contains Zh
>>

\* lookup_paths.rs sample_multiple_blocks: U+00AE gives "(R)" or "(r)"
REGISTERED_SIGN == {<<40, 82, 41>>, <<40, 114, 41>>}

\* spec_extra.rs fractions_common: the output for the one character, trimmed,
\* is the fraction
FRACTIONS == <<
    <<188, <<49, 47, 52>>>>,       \* U+00BC -> 1/4
    <<189, <<49, 47, 50>>>>,       \* U+00BD -> 1/2
    <<190, <<51, 47, 52>>>>,       \* U+00BE -> 3/4
    <<8528, <<49, 47, 55>>>>,      \* U+2150 -> 1/7
    <<8529, <<49, 47, 57>>>>,      \* U+2151 -> 1/9
    <<8530, <<49, 47, 49, 48>>>>,  \* U+2152 -> 1/10
    <<8531, <<49, 47, 51>>>>,      \* U+2153 -> 1/3
    <<8532, <<50, 47, 51>>>>,      \* U+2154 -> 2/3
    <<8533, <<49, 47, 53>>>>,      \* U+2155 -> 1/5
    <<8534, <<50, 47, 53>>>>,      \* U+2156 -> 2/5
    <<8535, <<51, 47, 53>>>>,      \* U+2157 -> 3/5
    <<8536, <<52, 47, 53>>>>,      \* U+2158 -> 4/5
    <<8537, <<49, 47, 54>>>>,      \* U+2159 -> 1/6
    <<8538, <<53, 47, 54>>>>,      \* U+215A -> 5/6
    <<8539, <<49, 47, 56>>>>,      \* U+215B -> 1/8
    <<8540, <<51, 47, 56>>>>,      \* U+215C -> 3/8
    <<8541, <<53, 47, 56>>>>,      \* U+215D -> 5/8
    <<8542, <<55, 47, 56>>>>       \* U+215E -> 7/8
>>

\* the sentence tests fix the output of a whole sentence, not of one code
\* point: listed is the value of each code point under which the test passes
\* with one value per letter

\* spec_extra.rs roman_numerals: U+2160..U+216F give letters of IVXLCDM only,
\* 15 to 40 of them in all
ROMAN_NUMERALS == <<
    <<8544, <<73>>>>,              \* U+2160 -> I
    <<8545, <<73, 73>>>>,          \* U+2161 -> II
    <<8546, <<73, 73, 73>>>>,      \* U+2162 -> III
    <<8547, <<73, 86>>>>,          \* U+2163 -> IV
    <<8548, <<86>>>>,              \* U+2164 -> V
    <<8549, <<86, 73>>>>,          \* U+2165 -> VI
    <<8550, <<86, 73, 73>>>>,      \* U+2166 -> VII
    <<8551, <<86, 73, 73, 73>>>>,  \* U+2167 -> VIII
    <<8552, <<73, 88>>>>,          \* U+2168 -> IX
    <<8553, <<88>>>>,              \* U+2169 -> X
    <<8554, <<88, 73>>>>,          \* U+216A -> XI
    <<8555, <<88, 73, 73>>>>,      \* U+216B -> XII
    <<8556, <<76>>>>,              \* U+216C -> L
    <<8557, <<67>>>>,              \* U+216D -> C
    <<8558, <<68>>>>,              \* U+216E -> D
    <<8559, <<77>>>>               \* U+216F -> M
>>

\* spec_extra.rs greek_sample: the output contains "Th" and "Ph" or "F"
GREEK_SAMPLE == <<
    <<934, <<80, 104>>>>   \* U+03A6 -> Ph
>>

\* spec_extra.rs combining_marks_collapse: the precomposed letters give what
\* their base letters followed by combining marks give
COMBINING_SAMPLE == <<
    <<241, <<110>>>>,   \* U+00F1 -> n
    <<7873, <<101>>>>,  \* U+1EC1 -> e
    <<7895, <<111>>>>   \* U+1ED7 -> o
>>

\* spec_extra.rs cyrillic_sentence: the output contains "frantsuzskikh" and
\* "chaiu"; the letters of the two words
CYRILLIC_SAMPLE == <<
    <<1072, <<97>>>>,        \* U+0430 -> a
    <<1079, <<122>>>>,       \* U+0437 -> z
    <<1080, <<105>>>>,       \* U+0438 -> i
    <<1082, <<107>>>>,       \* U+043A -> k
    <<1085, <<110>>>>,       \* U+043D -> n
    <<1088, <<114>>>>,       \* U+0440 -> r
    <<1089, <<115>>>>,       \* U+0441 -> s
    <<1091, <<117>>>>,       \* U+0443 -> u
    <<1092, <<102>>>>,       \* U+0444 -> f
    <<1093, <<107, 104>>>>,  \* U+0445 -> kh
    <<1094, <<116, 115>>>>,  \* U+0446 -> ts
    <<1095, <<99, 104>>>>,   \* U+0447 -> ch
    <<1102, <<105, 117>>>>   \* U+044E -> iu
>>

\* spec_cases.rs enclosed_alphanumerics_sample: U+24D0 (above) and these seven
\* give "aA20(20)20.20100"
ENCLOSED_ALPHANUMERICS == <<
    <<9398, <<65>>>>,              \* U+24B6 -> A
    <<9331, <<50, 48>>>>,          \* U+2473 -> 20
    <<9351, <<40, 50, 48, 41>>>>,  \* U+2487 -> (20)
    <<9371, <<50, 48, 46>>>>,      \* U+249B -> 20.
    <<9460, <<50, 48>>>>,          \* U+24F4 -> 20
    <<9470, <<49, 48>>>>,          \* U+24FE -> 10
    <<9471, <<48>>>>               \* U+24FF -> 0
>>

\* spec_cases.rs fullwidth_sentence: the fullwidth pangram and digits give
\* "the quick brown fox jumps over the lazy dog 12345": U+FF41 + i gives
\* 'a' + i for the 26 letters, U+FF11 + i gives '1' + i for i in 0..5
FULLWIDTH ==
    [n \in 1..26 |-> <<65345 + (n - 1), <<97 + (n - 1)>>>>]
    \o [n \in 1..5 |-> <<65297 + (n - 1), <<49 + (n - 1)>>>>]

\* spec_cases.rs mixed_complex_sentence: the output contains "PRILIS",
\* "ZLUTOUCKY", "deja vu" and "Russkii"; the letters of these words that
\* are not above
MIXED_SENTENCE == <<
    <<344, <<82>>>>,    \* U+0158 -> R
    <<205, <<73>>>>,    \* U+00CD -> I
    <<352, <<83>>>>,    \* U+0160 -> S
    <<381, <<90>>>>,    \* U+017D -> Z
    <<356, <<84>>>>,    \* U+0164 -> T
    <<268, <<67>>>>,    \* U+010C -> C
    <<221, <<89>>>>,    \* U+00DD -> Y
    <<1056, <<82>>>>,   \* U+0420 -> R
    <<1081, <<105>>>>   \* U+0439 -> i
>>

SENTENCE_PAIRS ==
    ROMAN_NUMERALS \o GREEK_SAMPLE \o COMBINING_SAMPLE \o CYRILLIC_SAMPLE
    \o ENCLOSED_ALPHANUMERICS \o FULLWIDTH \o MIXED_SENTENCE

\* for a code point of pairs, its value there
ValueIn(pairs, cp) ==
    pairs[CHOOSE n \in 1..Len(pairs) : pairs[n][1] = cp][2]

KeysOf(pairs) == {pairs[n][1] : n \in 1..Len(pairs)}

\* v, alone or with a blank before or after it
Padded(v) == {v, <<32>> \o v, v \o <<32>>}

\* an entry of a block file that is not checked in: "zero or more ASCII
\* bytes", the empty string standing for no entry. Drawn are no entry and
\* the eleven bytes "*1.000.000*".
MappingEntries ==
    {<<>>, <<42, 49, 46, 48, 48, 48, 46, 48, 48, 48, 42>>}

\* the answers of the reference at cp that the tests admit, for a code point
\* not pinned: the two forms of U+00AE, a fraction or a fragment with or
\* without blanks around it, for a letter of a sentence test the listed value
\* or any other entry, and any entry where no test speaks
Answers(cp) ==
    IF cp = 174 THEN REGISTERED_SIGN
    ELSE IF cp \in KeysOf(FRACTIONS) THEN Padded(ValueIn(FRACTIONS, cp))
    ELSE IF cp \in KeysOf(TEST_SAMPLES) THEN Padded(ValueIn(TEST_SAMPLES, cp))
    ELSE IF cp \in KeysOf(SENTENCE_PAIRS)
        THEN MappingEntries \cup {ValueIn(SENTENCE_PAIRS, cp)}
    ELSE MappingEntries

\* the value the tests list for a code point no file pins, "(R)" for U+00AE
LISTED_PAIRS ==
    TEST_SAMPLES \o << <<174, <<40, 82, 41>>>> >> \o FRACTIONS \o SENTENCE_PAIRS

ListedMap == [cp \in KeysOf(LISTED_PAIRS) |-> ValueIn(LISTED_PAIRS, cp)]

\* the code point whose answer decides that of cp: spec_cases.rs
\* degree_equivalence, U+2103 and U+2109 give what U+00B0 gives, followed by
\* "C" and by "F"
Asked(cp) == IF cp \in {8451, 8457} THEN 176 ELSE cp

\* the answer at a code point that is not pinned: each code point has its
\* own. For a code point of the input it is drawn (unlisted); a code point
\* outside the input, which the call never looks up, has the listed value,
\* or no entry where the tests list none.
Unpinned(cp) ==
    IF cp \in DOMAIN unlisted THEN unlisted[cp]
    ELSE IF cp \in DOMAIN ListedMap THEN ListedMap[cp]
    ELSE <<>>

\* _u(chr(cp)): ASCII is returned as is; "" when the reference has no entry
Reference(cp) ==
    IF cp < 128 THEN <<cp>>
    ELSE IF cp \in DOMAIN PinnedMap THEN PinnedMap[cp]
    ELSE IF cp \in PinnedAbsent THEN <<>>
    ELSE IF cp = 8451 THEN Unpinned(Asked(cp)) \o <<67>>
    ELSE IF cp = 8457 THEN Unpinned(Asked(cp)) \o <<70>>
    ELSE Unpinned(cp)

-----------------------------------------------------------------------------
(* The generated module unidecode_table (build.rs) *)

\* for block in 0u32..0x110u32
NumBlocks == 272

\* write_block puts cp in the block's phf map: `if s: out[cp]=s`
block_has(block, cp) ==
    /\ cp \in (block * 256)..(block * 256 + 255)
    /\ Reference(cp) # <<>>

\* the keys of the block's phf map
block_keys(block) == {cp \in (block * 256)..(block * 256 + 255) : block_has(block, cp)}

\* the blocks with a pinned entry or an ASCII code point: the reference
\* answers in them whatever the other answers are
PinnedBlocks == {0} \cup {cp \div 256 : cp \in DOMAIN PinnedMap}

\* out_dir.join("{:02x}.rs").exists() once main has run over 0..NumBlocks:
\* write_block has written a file for the block when the reference answered
\* for one of its code points
block_file_exists(block) ==
    /\ block < NumBlocks
    /\ \/ block \in PinnedBlocks
       \/ \E cp \in (block * 256)..(block * 256 + 255) : block_has(block, cp)

\* BLOCK_xx.get(&cp).copied()
block_get(block, cp) ==
    IF block_has(block, cp) THEN Some(Reference(cp)) ELSE None

\* variant: the bit position is taken one too high (wrapping in the byte)
bitmap_byte_shifted(block, byte) ==
    LET bitval[bit \in 0..8] ==
            IF bit = 8 THEN 0
            ELSE (IF block_has(block, block * 256 + byte * 8 + bit)
                  THEN 2 ^ ((bit + 1) % 8) ELSE 0) + bitval[bit + 1]
    IN  IF block_file_exists(block) THEN bitval[0] ELSE 0

\* bits[byte] after `bits[byte] |= 1 << bit` for every key of the block file
bitmap_byte(block, byte) ==
    LET bitval[bit \in 0..8] ==
            IF bit = 8 THEN 0
            ELSE (IF block_has(block, block * 256 + byte * 8 + bit)
                  THEN 2 ^ bit ELSE 0) + bitval[bit + 1]
    IN  IF block_file_exists(block) THEN bitval[0] ELSE 0

BLOCK_BITMAPS ==
    [block \in 0..(NumBlocks - 1) |-> [byte \in 0..31 |-> bitmap_byte(block, byte)]]

\* BLOCK_BITMAPS.len(): bitmaps.push runs once for every block of 0..NumBlocks
BLOCK_BITMAPS_len == NumBlocks

lookup(cp) ==
    LET block == cp \div 256 IN
    IF block >= BLOCK_BITMAPS_len THEN None
    ELSE LET idx  == cp % 256
             b    == BLOCK_BITMAPS[block]
             byte == idx \div 8
             bit  == idx % 8
         IN  IF (b[byte] \div (2 ^ bit)) % 2 = 0 THEN None
             ELSE IF block_file_exists(block) THEN block_get(block, cp)
             ELSE None

\* variant: the direct table is filled one slot too high
MAP_0_255_shifted ==
    [cp \in 0..255 |->
        IF cp < 128 THEN <<>>
        ELSE IF block_has(0, cp - 1) /\ cp - 1 >= 128 THEN Reference(cp - 1) ELSE <<>>]

\* latin1[cp] = Some(s) for the keys 0x80..0xFF of block 0, "" otherwise
MAP_0_255 ==
    [cp \in 0..255 |->
        IF cp < 128 THEN <<>>
        ELSE IF block_has(0, cp) THEN Reference(cp) ELSE <<>>]

lookup_0_255(cp) ==
    LET s == MAP_0_255[cp] IN IF s = <<>> THEN None ELSE Some(s)

-----------------------------------------------------------------------------
(* ErrorsPolicy (lib.rs) *)

Default == [kind |-> "Default", replace |-> <<>>]

Ignore == [kind |-> "Ignore", replace |-> <<>>]

Replace(r) == [kind |-> "Replace", replace |-> r]

Preserve == [kind |-> "Preserve", replace |-> <<>>]

Strict == [kind |-> "Strict", replace |-> <<>>]

Invalid == [kind |-> "Invalid", replace |-> <<>>]

-----------------------------------------------------------------------------
(* transliterate_internal (lib.rs), one operator per step of its body.     *)
(* A frame holds the locals of one call.                                   *)

\* variant: the fast path returns a fresh empty String
fast_path_out_empty(s) == <<>>

\* line 68: the whole-string ASCII test and what the fast path returns
fast_path_out(s) == s

enter(s, p) ==
    IF str_is_ascii(s)
    THEN [input |-> s, policy |-> p, pc |-> "returned", estimated |-> 0, j |-> 0,
          capacity |-> 0, out |-> fast_path_out(s), char_index |-> 0, i |-> 0,
          error_index |-> None]
    ELSE [input |-> s, policy |-> p, pc |-> "pass1", estimated |-> 0, j |-> 0,
          capacity |-> 0, out |-> <<>>, char_index |-> 0, i |-> 0,
          error_index |-> None]

\* lines 74-85: what one char adds to `estimated`
pass1_contribution(p, cp) ==
    LET o == lookup_override(cp) IN
    IF o.some THEN Len(o.val)
    ELSE IF cp < 256
        THEN IF cp < 128 THEN 1
             ELSE LET d == lookup_0_255(cp) IN IF d.some THEN Len(d.val) ELSE 0
    ELSE LET t == lookup(cp) IN
         IF t.some THEN Len(t.val)
         ELSE IF p.kind = "Replace" THEN Len(p.replace)
         ELSE IF p.kind \in {"Preserve", "Invalid"} THEN len_utf8(cp)
         ELSE 0

\* lines 72-86: one iteration of `for ch in input.chars()`
pass1_iter(f) ==
    LET cp == next_char(f.input, f.j) IN
    [f EXCEPT !.estimated = @ + pass1_contribution(f.policy, cp),
              !.j = @ + len_utf8(cp)]

\* lines 87-93: end of Pass 1, reservation, Pass 2 locals
pass1_end(f) ==
    LET est == IF f.estimated = 0 THEN Len(f.input) ELSE f.estimated IN
    [f EXCEPT !.pc = "pass2", !.estimated = est, !.capacity = est,
              !.out = <<>>, !.char_index = 0, !.i = 0]

\* variant: the run stops after its first byte
ascii_run_end_single(s, at) == at

RECURSIVE ascii_run_end(_, _)
\* line 96: `while i < bytes.len() && bytes[i].is_ascii() { i += 1; }`
ascii_run_end(s, at) ==
    IF at < Len(s) /\ u8_is_ascii(s[at + 1]) THEN ascii_run_end(s, at + 1) ELSE at

\* variant: the slice copied starts one byte late
pass2_ascii_run_late_start(f) ==
    LET start == f.i
        end   == ascii_run_end(f.input, f.i + 1)
        run   == SubSeq(f.input, start + 1, end)
    IN  [f EXCEPT !.i = end, !.out = @ \o SubSeq(f.input, start + 2, end),
                  !.char_index = @ + Len(chars(run))]

\* lines 95-100: one maximal run of ASCII bytes
pass2_ascii_run(f) ==
    LET start == f.i
        end   == ascii_run_end(f.input, f.i + 1)
        run   == SubSeq(f.input, start + 1, end)
    IN  [f EXCEPT !.i = end, !.out = @ \o run,
                  !.char_index = @ + Len(chars(run))]

\* lines 105-110: override, then direct range (cp < 0x100), then block table
resolve(cp) ==
    LET o == lookup_override(cp) IN
    IF o.some THEN o
    ELSE IF cp < 256
        THEN IF cp < 128 THEN Some(encode_utf8(cp))
             ELSE LET d == lookup_0_255(cp) IN IF d.some THEN d ELSE lookup(cp)
    ELSE lookup(cp)

\* variant: Default shares the Preserve arm
unmapped_emit_default_keeps(p, cp) ==
    IF p.kind = "Ignore" THEN [stop |-> FALSE, push |-> <<>>]
    ELSE IF p.kind = "Replace" THEN [stop |-> FALSE, push |-> p.replace]
    ELSE IF p.kind \in {"Default", "Preserve", "Invalid"}
        THEN [stop |-> FALSE, push |-> encode_utf8(cp)]
    ELSE [stop |-> TRUE, push |-> <<>>]

\* variant: Replace shares the skip arm
unmapped_emit_replace_skips(p, cp) ==
    IF p.kind \in {"Default", "Ignore", "Replace"} THEN [stop |-> FALSE, push |-> <<>>]
    ELSE IF p.kind \in {"Preserve", "Invalid"}
        THEN [stop |-> FALSE, push |-> encode_utf8(cp)]
    ELSE [stop |-> TRUE, push |-> <<>>]

\* variant: Invalid shares the Strict arm
unmapped_emit_invalid_stops(p, cp) ==
    IF p.kind \in {"Default", "Ignore"} THEN [stop |-> FALSE, push |-> <<>>]
    ELSE IF p.kind = "Replace" THEN [stop |-> FALSE, push |-> p.replace]
    ELSE IF p.kind = "Preserve" THEN [stop |-> FALSE, push |-> encode_utf8(cp)]
    ELSE [stop |-> TRUE, push |-> <<>>]

\* variant: Ignore emits "?"
unmapped_emit_ignore_marks(p, cp) ==
    IF p.kind = "Default" THEN [stop |-> FALSE, push |-> <<>>]
    ELSE IF p.kind = "Ignore" THEN [stop |-> FALSE, push |-> <<63>>]
    ELSE IF p.kind = "Replace" THEN [stop |-> FALSE, push |-> p.replace]
    ELSE IF p.kind \in {"Preserve", "Invalid"}
        THEN [stop |-> FALSE, push |-> encode_utf8(cp)]
    ELSE [stop |-> TRUE, push |-> <<>>]

\* lines 112-119: the policy applied to an unmapped char;
\* stop = the Strict early return, push = what is appended to out
unmapped_emit(p, cp) ==
    IF p.kind \in {"Default", "Ignore"} THEN [stop |-> FALSE, push |-> <<>>]
    ELSE IF p.kind = "Replace" THEN [stop |-> FALSE, push |-> p.replace]
    ELSE IF p.kind \in {"Preserve", "Invalid"}
        THEN [stop |-> FALSE, push |-> encode_utf8(cp)]
    ELSE [stop |-> TRUE, push |-> <<>>]

\* variant: the Strict failure reports the byte cursor
strict_error_index_bytes(f) == f.i

\* line 117: the index a Strict failure reports
strict_error_index(f) == f.char_index

\* variant: a resolved value is appended twice
pass2_char_twice(f) ==
    LET cp == next_char(f.input, f.i)
        g  == [f EXCEPT !.i = @ + len_utf8(cp)]
        r  == resolve(cp)
    IN  IF r.some
        THEN [g EXCEPT !.out = @ \o r.val \o r.val, !.char_index = @ + 1]
        ELSE LET u == unmapped_emit(f.policy, cp) IN
             IF u.stop
             THEN [g EXCEPT !.pc = "returned", !.error_index = Some(strict_error_index(f))]
             ELSE [g EXCEPT !.out = @ \o u.push, !.char_index = @ + 1]

\* lines 102-121: one non-ASCII char
pass2_char(f) ==
    LET cp == next_char(f.input, f.i)
        g  == [f EXCEPT !.i = @ + len_utf8(cp)]
        r  == resolve(cp)
    IN  IF r.some
        THEN [g EXCEPT !.out = @ \o r.val, !.char_index = @ + 1]
        ELSE LET u == unmapped_emit(f.policy, cp) IN
             IF u.stop
             THEN [g EXCEPT !.pc = "returned", !.error_index = Some(strict_error_index(f))]
             ELSE [g EXCEPT !.out = @ \o u.push, !.char_index = @ + 1]

\* line 123
pass2_end(f) == [f EXCEPT !.pc = "returned", !.error_index = None]

\* the next step of a call that has not returned
step(f) ==
    IF f.pc = "pass1"
    THEN IF f.j < Len(f.input) THEN pass1_iter(f) ELSE pass1_end(f)
    ELSE IF f.i >= Len(f.input) THEN pass2_end(f)
    ELSE IF u8_is_ascii(f.input[f.i + 1]) THEN pass2_ascii_run(f)
    ELSE pass2_char(f)

RECURSIVE run(_)
run(f) == IF f.pc = "returned" THEN f ELSE run(step(f))

transliterate_internal(s, p) ==
    LET f == run(enter(s, p)) IN [out |-> f.out, error_index |-> f.error_index]

\* lines 56-58
unidecode_with_policy(s, p) == transliterate_internal(s, p).out

\* line 47
unidecode(s) == unidecode_with_policy(s, Default)

\* Result<String, usize>
Ok(s) == [ok |-> TRUE, val |-> s, err |-> 0]

Err(idx) == [ok |-> FALSE, val |-> <<>>, err |-> idx]

\* lines 61-65, from the TransliterationResult r
result_of(r) == IF r.error_index.some THEN Err(r.error_index.val) ELSE Ok(r.out)

unidecode_with_policy_result(s, p) == result_of(transliterate_internal(s, p))

-----------------------------------------------------------------------------
(* The Python binding (lib_py.rs) *)

\* Option<&str> of a selector name
PyNone == [some |-> FALSE, val |-> ""]

PySome(name) == [some |-> TRUE, val |-> name]

\* variant: "invalid" has no arm of its own
py_policy_invalid_unknown(e, r) ==
    LET name == IF e.some THEN e.val ELSE "" IN
    IF name = "" THEN [known |-> TRUE, policy |-> Default]
    ELSE IF name = "ignore" THEN [known |-> TRUE, policy |-> Ignore]
    ELSE IF name = "replace"
        THEN [known |-> TRUE, policy |-> Replace(IF r.some THEN r.val ELSE <<63>>)]
    ELSE IF name = "preserve" THEN [known |-> TRUE, policy |-> Preserve]
    ELSE IF name = "strict" THEN [known |-> TRUE, policy |-> Strict]
    ELSE [known |-> FALSE, policy |-> Default]

\* variant: the last arm falls back to the default policy
py_policy_silent_default(e, r) ==
    LET name == IF e.some THEN e.val ELSE "" IN
    IF name = "ignore" THEN [known |-> TRUE, policy |-> Ignore]
    ELSE IF name = "replace"
        THEN [known |-> TRUE, policy |-> Replace(IF r.some THEN r.val ELSE <<63>>)]
    ELSE IF name = "preserve" THEN [known |-> TRUE, policy |-> Preserve]
    ELSE IF name = "invalid" THEN [known |-> TRUE, policy |-> Preserve]
    ELSE IF name = "strict" THEN [known |-> TRUE, policy |-> Strict]
    ELSE [known |-> TRUE, policy |-> Default]

\* lines 49-61: the policy a selector stands for, or the unknown-policy error
py_policy(e, r) ==
    LET name == IF e.some THEN e.val ELSE "" IN
    IF name = "" THEN [known |-> TRUE, policy |-> Default]
    ELSE IF name = "ignore" THEN [known |-> TRUE, policy |-> Ignore]
    ELSE IF name = "replace"
        THEN [known |-> TRUE, policy |-> Replace(IF r.some THEN r.val ELSE <<63>>)]
    ELSE IF name = "preserve" THEN [known |-> TRUE, policy |-> Preserve]
    ELSE IF name = "invalid" THEN [known |-> TRUE, policy |-> Preserve]
    ELSE IF name = "strict" THEN [known |-> TRUE, policy |-> Strict]
    ELSE [known |-> FALSE, policy |-> Default]

\* PyResult<String>
PyOk(s) == [ok |-> TRUE, val |-> s, exc |-> "", index |-> 0]

PyErr(exc, idx) == [ok |-> FALSE, val |-> <<>>, exc |-> exc, index |-> idx]

\* lines 62-72
py_map_result(r) == IF r.ok THEN PyOk(r.val) ELSE PyErr("UnidecodeError", r.err)

-----------------------------------------------------------------------------
(* Bounds and the inputs drawn *)

MaxLen == 3

\* a, DEL, U+0080 (its entry is pinned by no file and no test: unlisted),
\* e-acute, U+2600 (no entry in block 0x26), white knight, black heart,
\* grinning face, MATHEMATICAL BOLD CAPITAL A, U+1D56D (listed in the override
\* table)
CodePoints == {97, 127, 128, 233, 9728, 9816, 9829, 128512, 119808, 120173}

PyCodePoints == {97, 233, 128512}

SeqsUpTo(S, n) == UNION {[1..m -> S] : m \in 0..n}

\* inputs with several code points that are not pinned: Theta Phi
\* (spec_extra.rs greek_sample), and the precomposed letters of
\* spec_extra.rs combining_marks_collapse (e-acute, U+1EC1, U+1ED7, n-tilde)
TestInputs == {to_str(<<920, 934>>), to_str(<<233, 7873, 7895, 241>>)}

Inputs == {to_str(cps) : cps \in SeqsUpTo(CodePoints, MaxLen)} \cup TestInputs

PyInputs == {to_str(cps) : cps \in SeqsUpTo(PyCodePoints, MaxLen)}

\* "?", "[x]" and the non-ASCII "é"
Replacements == {<<63>>, <<91, 120, 93>>, <<195, 169>>}

Policies ==
    {Default, Ignore, Preserve, Strict, Invalid} \cup {Replace(r) : r \in Replacements}

PyErrorsArgs ==
    {PyNone} \cup {PySome(name) : name \in {"", "default", "ignore", "replace",
                                           "preserve", "invalid", "strict", "bogus"}}

PyReplaceArgs == {None, Some(<<91, 120, 93>>)}

OverrideKeys == {MATH_ALPHA_OVERRIDES[n][1] : n \in 1..Len(MATH_ALPHA_OVERRIDES)}

\* code points scanned one at a time: the override keys and their neighbours,
\* block 0x26, the code points the tests name (Latin-1 and blocks 0x01, 0x03,
\* 0x04, 0x1E, 0x21, 0x24, 0xA5, 0xFF), U+0080 and U+00AD, letters of the
\* samples of golden_equivalence.rs (U+00E7, U+2014, U+0414, U+0939, U+0E20,
\* U+3053, U+4E2D, U+D55C, U+1F44D), block 0x1F6, and the edges of the
\* generated range
ScanPoints ==
    OverrideKeys \cup {119860, 120172, 120174} \cup (9728..9983)
    \cup {0, 97, 127, 128, 173, 174, 176, 188, 223, 224, 233, 241}
    \cup {196, 198, 201, 205, 222, 254, 268, 344, 381, 1056, 1081}
    \cup {9331, 9351, 9398, 9470, 9471, 65297, 65301, 65345, 65370}
    \cup {768, 771, 920, 934, 1046, 1092, 1093, 7873, 7895, 7935, 42240}
    \cup {8451, 8457, 8528, 8530, 8542} \cup (8544..8559) \cup (9424..9449)
    \cup {231, 8212, 1044, 2361, 3616, 12371, 20013, 54620, 128077}
    \cup {55295, 57344, 65535, 65536, 69631, 69632, 1114111}
    \cup (128512..128520) \cup (128620..128640)

ScanInputs == {encode_utf8(cp) : cp \in ScanPoints}

\* the code points of s that build.rs asks the reference about and whose
\* answer is not pinned, U+2103 and U+2109 taking theirs from U+00B0
UnlistedIn(s) ==
    {Asked(cp) : cp \in
        {c \in {chars(s)[n] : n \in 1..Len(chars(s))} :
            /\ c >= 128
            /\ c < NumBlocks * 256
            /\ c \notin DOMAIN PinnedMap
            /\ c \notin PinnedAbsent}}

\* the answers a call on s can meet: one answer for each such code point,
\* each drawn on its own
AnswersFor(s) ==
    {f \in [UnlistedIn(s) -> UNION {Answers(cp) : cp \in UnlistedIn(s)}] :
        \A cp \in UnlistedIn(s) : f[cp] \in Answers(cp)}

-----------------------------------------------------------------------------
(* The state machine *)

NoResult == Err(0)

NoPyResult == PyErr("", 0)

Frame ==
    [input |-> input, policy |-> policy, pc |-> pc, estimated |-> estimated,
     j |-> j, capacity |-> capacity, out |-> out, char_index |-> char_index,
     i |-> i, error_index |-> error_index]

Install(f) ==
    /\ pc' = f.pc
    /\ estimated' = f.estimated
    /\ j' = f.j
    /\ capacity' = f.capacity
    /\ out' = f.out
    /\ char_index' = f.char_index
    /\ i' = f.i
    /\ error_index' = f.error_index
    /\ UNCHANGED <<api, errors, replace_str, input, policy, result, py_result, unlisted>>

Locals0 ==
    /\ estimated = 0
    /\ j = 0
    /\ capacity = 0
    /\ out = <<>>
    /\ char_index = 0
    /\ i = 0
    /\ error_index = None
    /\ result = NoResult
    /\ py_result = NoPyResult

\* a call of the crate's unidecode_with_policy_result(input, policy)
InitRust ==
    /\ api = "rust"
    /\ errors = PyNone
    /\ replace_str = None
    /\ input \in Inputs
    /\ policy \in Policies
    /\ pc = "call"
    /\ Locals0
    /\ unlisted \in AnswersFor(input)

\* a call of the binding's unidecode(string, errors, replace_str)
InitPy ==
    /\ api = "py"
    /\ errors \in PyErrorsArgs
    /\ replace_str \in PyReplaceArgs
    /\ input \in PyInputs
    /\ policy = Default
    /\ pc = "py_call"
    /\ Locals0
    /\ unlisted \in AnswersFor(input)

Init == InitRust \/ InitPy

\* lib_py.rs lines 49-61
PySelectPolicy ==
    /\ pc = "py_call"
    /\ LET sel == py_policy(errors, replace_str) IN
       IF sel.known
       THEN /\ policy' = sel.policy
            /\ pc' = "call"
            /\ py_result' = py_result
       ELSE /\ policy' = policy
            /\ pc' = "py_done"
            /\ py_result' = PyErr("ValueError", 0)
    /\ UNCHANGED <<api, errors, replace_str, input, estimated, j, capacity, out,
                   char_index, i, error_index, result, unlisted>>

\* lib.rs line 68
Enter ==
    /\ pc = "call"
    /\ Install(enter(input, policy))

Pass1Iter ==
    /\ pc = "pass1"
    /\ j < Len(input)
    /\ Install(pass1_iter(Frame))

Pass1End ==
    /\ pc = "pass1"
    /\ j >= Len(input)
    /\ Install(pass1_end(Frame))

Pass2AsciiRun ==
    /\ pc = "pass2"
    /\ i < Len(input)
    /\ u8_is_ascii(input[i + 1])
    /\ Install(pass2_ascii_run(Frame))

Pass2Char ==
    /\ pc = "pass2"
    /\ i < Len(input)
    /\ ~u8_is_ascii(input[i + 1])
    /\ Install(pass2_char(Frame))

Pass2End ==
    /\ pc = "pass2"
    /\ i >= Len(input)
    /\ Install(pass2_end(Frame))

\* lib.rs lines 61-65
ReturnResult ==
    /\ pc = "returned"
    /\ result' = result_of([out |-> out, error_index |-> error_index])
    /\ pc' = IF api = "py" THEN "py_map" ELSE "done"
    /\ UNCHANGED <<api, errors, replace_str, input, policy, estimated, j, capacity,
                   out, char_index, i, error_index, py_result, unlisted>>

\* lib_py.rs lines 62-72
PyReturn ==
    /\ pc = "py_map"
    /\ py_result' = py_map_result(result)
    /\ pc' = "py_done"
    /\ UNCHANGED <<api, errors, replace_str, input, policy, estimated, j, capacity,
                   out, char_index, i, error_index, result, unlisted>>

Next ==
    \/ PySelectPolicy
    \/ Enter
    \/ Pass1Iter
    \/ Pass1End
    \/ Pass2AsciiRun
    \/ Pass2Char
    \/ Pass2End
    \/ ReturnResult
    \/ PyReturn

Spec == Init /\ [][Next]_vars

\* one-character calls over ScanPoints
InitScan ==
    /\ api = "rust"
    /\ errors = PyNone
    /\ replace_str = None
    /\ input \in ScanInputs
    /\ policy \in Policies
    /\ pc = "call"
    /\ Locals0
    /\ unlisted \in AnswersFor(input)

NextScan ==
    \/ Enter
    \/ Pass1Iter
    \/ Pass1End
    \/ Pass2Char
    \/ Pass2End
    \/ ReturnResult

SpecScan == InitScan /\ [][NextScan]_vars

-----------------------------------------------------------------------------
(* Properties *)

\* the call has come back from transliterate_internal
Returned == pc \in {"returned", "done", "py_map", "py_done"}

\* the call went through transliterate_internal (no unknown-policy error)
Ran == api = "rust" \/ py_policy(errors, replace_str).known

\* cp is non-ASCII and none of the three lookups yields a value for it
NoEntry(cp) ==
    /\ cp >= 128
    /\ ~lookup_override(cp).some
    /\ cp < 256 => ~lookup_0_255(cp).some
    /\ ~lookup(cp).some

RECURSIVE Expected(_, _, _, _)
\* s from byte offset `at` on, every code point without entry replaced by
\* rep (when keep is FALSE) or by its own bytes in s (when keep is TRUE), every
\* other code point by the Default transliteration of that code point alone
Expected(s, at, keep, rep) ==
    IF at >= Len(s) THEN <<>>
    ELSE LET cp == next_char(s, at)
             n  == len_utf8(cp)
             own == SubSeq(s, at + 1, at + n)
         IN  (IF NoEntry(cp) THEN (IF keep THEN own ELSE rep) ELSE unidecode(own))
             \o Expected(s, at + n, keep, rep)

\* positions (1-based) of the code points of s without entry
NoEntryAt(s) == {n \in 1..Len(chars(s)) : NoEntry(chars(s)[n])}

First(S) == CHOOSE n \in S : \A m \in S : n <= m

\* C1: under Default, Ignore and Replace with an ASCII replacement, every byte
\* of the output of a call is in 0x00..0x7F.
C1_AsciiOutput ==
    (Returned /\ policy.kind \in {"Default", "Ignore", "Replace"}
              /\ str_is_ascii(policy.replace))
        => \A n \in 1..Len(out) : out[n] \in 0..127

\* "e*1.000.000*[x]" out of e-acute, U+0080 with the entry "*1.000.000*",
\* grinning face under Replace "[x]"
C1_Witness ==
    /\ pc = "done"
    /\ policy = Replace(<<91, 120, 93>>)
    /\ input = to_str(<<233, 128, 128512>>)
    /\ unlisted[128] = <<42, 49, 46, 48, 48, 48, 46, 48, 48, 48, 42>>
    /\ out = <<101>> \o unlisted[128] \o <<91, 120, 93>>

\* C2: under Strict, on an input with a code point without entry, the call
\* stops at the first such code point: the cursor rests right after it, the
\* error index is the number of code points before it (not their byte
\* length), and the partial output is the transliteration of the prefix of
\* the input before it.
C2_StrictIndex ==
    (Returned /\ policy = Strict /\ NoEntryAt(input) # {})
        => LET cs     == chars(input)
               first  == First(NoEntryAt(input))
               prefix == to_str(SubSeq(cs, 1, first - 1))
           IN  /\ error_index = Some(first - 1)
               /\ out = unidecode(prefix)
               /\ i = Len(prefix) + len_utf8(cs[first])

\* e-acute, grinning face, a: index 1 (the byte offset is 2), partial "e"
C2_Witness ==
    /\ pc = "done"
    /\ policy = Strict
    /\ input = to_str(<<233, 128512, 97>>)
    /\ error_index = Some(1)
    /\ out = <<101>>
    /\ i = 6

\* the call has come back from unidecode_with_policy_result
HasResult == pc \in {"done", "py_map", "py_done"} /\ Ran

\* cp has an entry in the override table, the direct table or a block table
HasTableEntry(cp) ==
    \/ cp \in OverrideKeys
    \/ cp < 256 /\ MAP_0_255[cp] # <<>>
    \/ block_file_exists(cp \div 256) /\ cp \in block_keys(cp \div 256)

\* C3: unidecode_with_policy_result returns Err(index) exactly when the policy
\* is Strict and some code point of the input has no entry in the override,
\* direct or block tables; otherwise it returns Ok with the complete output,
\* which under Strict equals the Default output.
C3_ErrIffStrictUnmapped ==
    HasResult
        => LET cs  == chars(input)
               unm == \E n \in 1..Len(cs) : ~HasTableEntry(cs[n])
           IN  /\ ~result.ok <=> (policy = Strict /\ unm)
               /\ result.ok => result.val = unidecode_with_policy(input, policy)
               /\ (policy = Strict /\ ~unm) => result = Ok(unidecode(input))

\* C4: for every code point with a non-empty reference transliteration,
\* unidecode of the one-character string returns that reference string.
C4_ReferenceParity ==
    (pc = "done" /\ policy = Default)
        => LET cp == chars(input)[1] IN
           Reference(cp) # <<>> => out = Reference(cp)

\* C5: lookup_override(cp) is Some(v) for every pair (cp, v) listed in
\* MATH_ALPHA_OVERRIDES and None for every other code point, and unidecode of
\* a listed code point is its override string.
C5_OverrideLookup ==
    (pc = "done" /\ policy = Default)
        => LET cp == chars(input)[1] IN
           /\ \A n \in 1..Len(MATH_ALPHA_OVERRIDES) :
                  MATH_ALPHA_OVERRIDES[n][1] = cp
                      => /\ lookup_override(cp) = Some(MATH_ALPHA_OVERRIDES[n][2])
                         /\ out = MATH_ALPHA_OVERRIDES[n][2]
           /\ cp \notin OverrideKeys => lookup_override(cp) = None

\* C6: under the default policy, transliterating the output of a call again
\* gives that output.
C6_Idempotent ==
    (pc \in {"done", "py_done"} /\ Ran /\ policy = Default) => unidecode(out) = out

\* "e*1.000.000*hearts" out of e-acute, U+0080 with the entry "*1.000.000*",
\* black heart
C6_Witness ==
    /\ pc = "done"
    /\ policy = Default
    /\ input = to_str(<<233, 128, 9829>>)
    /\ unlisted[128] = <<42, 49, 46, 48, 48, 48, 46, 48, 48, 48, 42>>
    /\ out = <<101>> \o unlisted[128] \o <<104, 101, 97, 114, 116, 115>>
    /\ unidecode(out) = out

\* C7: an input of ASCII code points only, the empty string included, comes
\* back unchanged under every policy, with no failure reported.
C7_AsciiIdentity ==
    (Ran /\ str_is_ascii(input))
        => /\ Returned => (out = input /\ error_index = None)
           /\ pc \in {"done", "py_map", "py_done"} => result = Ok(input)
           /\ pc = "py_done" => py_result = PyOk(input)

\* "aa" under Strict
C7_Witness ==
    /\ pc = "done"
    /\ policy = Strict
    /\ input = <<97, 97>>
    /\ out = <<97, 97>>
    /\ result = Ok(<<97, 97>>)

\* C8: under Replace, the output is the input with every code point without
\* entry replaced by one copy of the replacement string and every other code
\* point by its Default transliteration; the binding's "replace" without a
\* replacement string replaces by "?".
C8_Replace ==
    /\ (Returned /\ policy.kind = "Replace")
           => out = Expected(input, 0, FALSE, policy.replace)
    /\ (api = "py" /\ errors.some /\ errors.val = "replace" /\ ~replace_str.some
            /\ pc = "py_done")
           => py_result = PyOk(Expected(input, 0, FALSE, <<63>>))

\* the binding, errors="replace", no replace_str: "e?a"
C8_Witness ==
    /\ pc = "py_done"
    /\ errors.some
    /\ errors.val = "replace"
    /\ ~replace_str.some
    /\ input = to_str(<<233, 128512, 97>>)
    /\ py_result = PyOk(<<101, 63, 97>>)

\* C9: under Preserve, every code point without entry is copied to the output
\* as its bytes in the input, at its position; Invalid gives the output of
\* Preserve.
C9_Preserve ==
    (Returned /\ policy.kind \in {"Preserve", "Invalid"})
        => /\ out = Expected(input, 0, TRUE, <<>>)
           /\ out = unidecode_with_policy(input, Preserve)
           /\ out = unidecode_with_policy(input, Invalid)

\* Invalid: U+0080 without entry, e-acute, grinning face gives C2 80, "e",
\* F0 9F 98 80
C9_Witness ==
    /\ pc = "done"
    /\ policy = Invalid
    /\ input = to_str(<<128, 233, 128512>>)
    /\ out = <<194, 128, 101, 240, 159, 152, 128>>

\* C10: under Default and under Ignore a code point without entry adds
\* nothing to the output, and the two policies give the same output.
C10_DefaultIgnore ==
    (Returned /\ Ran /\ policy.kind \in {"Default", "Ignore"})
        => /\ out = Expected(input, 0, FALSE, <<>>)
           /\ out = unidecode_with_policy(input, Default)
           /\ out = unidecode_with_policy(input, Ignore)

\* Ignore: a, grinning face, e-acute gives "ae"
C10_Witness ==
    /\ pc = "done"
    /\ policy = Ignore
    /\ input = to_str(<<97, 128512, 233>>)
    /\ out = <<97, 101>>

\* the value the override table lists for cp
OverrideValue(cp) ==
    MATH_ALPHA_OVERRIDES[CHOOSE n \in 1..Len(MATH_ALPHA_OVERRIDES) :
                             MATH_ALPHA_OVERRIDES[n][1] = cp][2]

\* the entry of the first of the three tables that has one for cp: the
\* override table, then the direct table (cp < 0x100), then the block table;
\* "" when none has
TierValue(cp) ==
    IF cp \in OverrideKeys THEN OverrideValue(cp)
    ELSE IF cp < 256 /\ MAP_0_255[cp] # <<>> THEN MAP_0_255[cp]
    ELSE IF block_file_exists(cp \div 256) /\ cp \in block_keys(cp \div 256)
        THEN Reference(cp)
    ELSE <<>>

\* C11: a non-ASCII code point resolves to the override table's value when
\* that table has an entry for it, otherwise (below 0x100) to the direct
\* table's entry, otherwise to the block table's entry.
C11_Precedence ==
    (pc = "done" /\ policy = Default)
        => LET cp == chars(input)[1] IN cp >= 128 => out = TierValue(cp)

\* the policy a selector name stands for
NamedPolicy(name, r) ==
    IF name = "ignore" THEN Ignore
    ELSE IF name = "replace" THEN Replace(IF r.some THEN r.val ELSE <<63>>)
    ELSE IF name = "preserve" THEN Preserve
    ELSE IF name = "invalid" THEN Invalid
    ELSE IF name = "strict" THEN Strict
    ELSE Default

\* what the binding returns when it runs the call under policy p
PyRunUnder(p) == py_map_result(unidecode_with_policy_result(input, p))

\* C12 as stated: each of the six names "default", "ignore", "replace",
\* "preserve", "invalid", "strict" is accepted and the call runs under the
\* policy of that name.
C12_SixNames ==
    (api = "py" /\ pc = "py_done" /\ errors.some
        /\ errors.val \in {"default", "ignore", "replace", "preserve", "invalid",
                           "strict"})
        => py_result = PyRunUnder(NamedPolicy(errors.val, replace_str))

\* C12, amended: the five names "ignore", "replace", "preserve", "invalid",
\* "strict" are accepted and the call returns what the policy of that name
\* gives; no selector and the empty string select the default policy; the
\* name "default" is rejected with the unknown-policy error.
C12_AcceptedNames ==
    (api = "py" /\ pc = "py_done")
        => /\ (errors.some /\ errors.val \in {"ignore", "replace", "preserve",
                                              "invalid", "strict"})
                  => py_result = PyRunUnder(NamedPolicy(errors.val, replace_str))
           /\ (~errors.some \/ errors.val = "") => py_result = PyRunUnder(Default)
           /\ (errors.some /\ errors.val = "default")
                  => py_result = PyErr("ValueError", 0)

\* errors="invalid" on e-acute, grinning face: "e", F0 9F 98 80
C12_Witness ==
    /\ api = "py"
    /\ pc = "py_done"
    /\ errors.some
    /\ errors.val = "invalid"
    /\ input = to_str(<<233, 128512>>)
    /\ py_result = PyOk(<<101, 240, 159, 152, 128>>)

\* the selector names the binding has an arm for
RecognizedNames == {"", "ignore", "replace", "preserve", "invalid", "strict"}

\* C13: a selector that is none of the recognized names makes the call fail
\* with the unknown-policy error before any transliteration step is taken:
\* the call never enters transliterate_internal and returns no output.
C13_UnknownPolicyFails ==
    (api = "py" /\ errors.some /\ errors.val \notin RecognizedNames)
        => /\ pc \in {"py_call", "py_done"}
           /\ out = <<>> /\ estimated = 0 /\ j = 0 /\ i = 0 /\ char_index = 0
           /\ result = NoResult
           /\ pc = "py_done" => py_result = PyErr("ValueError", 0)

\* errors="bogus" on e-acute: ValueError, nothing transliterated
C13_Witness ==
    /\ api = "py"
    /\ pc = "py_done"
    /\ errors.some
    /\ errors.val = "bogus"
    /\ input = to_str(<<233>>)
    /\ py_result = PyErr("ValueError", 0)
    /\ out = <<>>

\* bit (cp & 0xFF) of the presence bitmap of block cp >> 8 is 1
BitSet(cp) ==
    LET idx == cp % 256 IN
    (BLOCK_BITMAPS[cp \div 256][idx \div 8] \div (2 ^ (idx % 8))) % 2 = 1

\* C14: lookup(cp) returns a value exactly when cp >> 8 is below the number
\* of bitmaps and the bit of cp is 1; the value is then the block table's
\* entry for cp and is non-empty; otherwise lookup returns absent. A scanned
\* code point of 0x100 and above that the override lookup does not answer
\* comes out as that value.
C14_LookupIffBit ==
    LET cp    == chars(input)[1]
        inmap == cp \div 256 < BLOCK_BITMAPS_len /\ BitSet(cp)
    IN  /\ lookup(cp).some <=> inmap
        /\ lookup(cp).some
               => /\ lookup(cp).val = Reference(cp)
                  /\ lookup(cp).val # <<>>
                  /\ cp \in block_keys(cp \div 256)
        /\ ~inmap => lookup(cp) = None
        /\ (pc = "done" /\ policy = Default /\ cp >= 256 /\ ~lookup_override(cp).some)
               => out = lookup(cp).val

\* U+266F, whose bit is 1 in block 0x26, comes out as "#"
C14_Witness ==
    /\ pc = "done"
    /\ policy = Default
    /\ input = to_str(<<9839>>)
    /\ BitSet(9839)
    /\ lookup(9839) = Some(<<35>>)
    /\ out = <<35>>

\* under Default the call is at a valid position: the cursors are within the
\* input, the Pass 2 cursor is on a character boundary with the whole code
\* point in front of it, and the call returns Ok
NoPanic ==
    /\ pc \in {"call", "pass1", "pass2", "returned", "done"}
    /\ pc = "pass1" => j <= Len(input)
    /\ pc = "pass2"
           => /\ i <= Len(input)
              /\ i < Len(input)
                     => /\ input[i + 1] \notin 128..191
                        /\ i + len_utf8(next_char(input, i)) <= Len(input)
    /\ Returned => error_index = None
    /\ pc = "done" => result = Ok(out)

EntriesWithin(s) ==
    \A n \in 1..Len(chars(s)) :
        LET cp == chars(s)[n] IN
        resolve(cp).some => Len(resolve(cp).val) <= 4 * len_utf8(cp)

RECURSIVE RawEstimate(_, _, _)
RawEstimate(s, p, at) ==
    IF at >= Len(s) THEN 0
    ELSE LET cp == next_char(s, at) IN
         pass1_contribution(p, cp) + RawEstimate(s, p, at + len_utf8(cp))

\* C17: when a call on an input with a non-ASCII code point returns without
\* a Strict failure and the Pass-1 sum is not zero, the number of bytes reserved
\* is that sum and the output is exactly that long; for every code point of
\* the input that no lookup resolves, Pass 1 counts what Pass 2 appends.
C17_EstimateExact ==
    (Returned /\ Ran /\ error_index = None /\ ~str_is_ascii(input))
        => /\ RawEstimate(input, policy, 0) # 0
                  => (capacity = RawEstimate(input, policy, 0) /\ Len(out) = capacity)
           /\ \A n \in 1..Len(chars(input)) :
                  LET cp == chars(input)[n] IN
                  (cp >= 128 /\ NoEntry(cp))
                      => pass1_contribution(policy, cp) = Len(unmapped_emit(policy, cp).push)

\* C18: the keys of MATH_ALPHA_OVERRIDES are in strictly ascending order,
\* each entry's code point below the next entry's, hence no key twice: what
\* the binary search of lookup_override relies on.
\* Stated for the entry of the scanned code point: every entry before it has
\* a smaller key and every entry after it a larger one.
C18_OverridesSorted ==
    LET cp == chars(input)[1] IN
    \A n \in 1..Len(MATH_ALPHA_OVERRIDES) :
        MATH_ALPHA_OVERRIDES[n][1] = cp
            => \A m \in 1..Len(MATH_ALPHA_OVERRIDES) :
                   /\ m < n => MATH_ALPHA_OVERRIDES[m][1] < cp
                   /\ m > n => MATH_ALPHA_OVERRIDES[m][1] > cp

\* byte offset at of s is a UTF-8 character boundary
IsCharBoundary(s, at) == at = Len(s) \/ (at < Len(s) /\ s[at + 1] \notin 128..191)

\* one iteration of the Pass 2 loop, or its exit
CursorStep ==
    pc = "pass2"
        => /\ input' = input
           /\ pc' \in {"pass2", "returned"}
           /\ pc' = "pass2"
                  => /\ i < Len(input)
                     /\ i' > i
                     /\ i' <= Len(input)
                     /\ IsCharBoundary(input, i')
                     /\ IF u8_is_ascii(input[i + 1])
                        THEN /\ \A n \in (i + 1)..i' : u8_is_ascii(input[n])
                             /\ i' < Len(input) => ~u8_is_ascii(input[i' + 1])
                             /\ out' = out \o SubSeq(input, i + 1, i')
                        ELSE /\ i' = i + len_utf8(next_char(input, i))
                             /\ to_str(<<next_char(input, i)>>) = SubSeq(input, i + 1, i')
           /\ pc' = "returned"
                  => \/ i = Len(input) /\ i' = i /\ error_index' = None
                     \/ /\ i < Len(input)
                        /\ policy.kind = "Strict"
                        /\ error_index'.some
                        /\ NoEntry(next_char(input, i))

\* C19: in Pass 2 the byte cursor is always on a character boundary within
\* the input; every iteration moves it strictly forward, over one maximal run
\* of ASCII bytes or over exactly one non-ASCII code point, and the loop is
\* left only with the cursor at the input length or on a Strict failure.
C19_CursorAdvances ==
    /\ [](pc = "pass2" => (i <= Len(input) /\ IsCharBoundary(input, i)))
    /\ [][CursorStep]_vars

\* past a run of two ASCII bytes, in front of a non-ASCII code point
C19_Witness ==
    /\ pc = "pass2"
    /\ i = 2
    /\ i < Len(input)
    /\ u8_is_ascii(input[1]) /\ u8_is_ascii(input[2])
    /\ ~u8_is_ascii(input[i + 1])
    /\ out = SubSeq(input, 1, 2)

\* C20: for a code point of 0x80..0xFF the direct table and the block-0 table
\* give the same answer, both absent or both the same string, so a miss in
\* the direct table is a miss in the block lookup too. For every scanned
\* non-ASCII code point under Default the two passes agree on mapped or
\* unmapped: Pass 1 reserved the length of the value exactly when Pass 2
\* emitted one, and fell back to the input length when Pass 2 emitted nothing.
C20_DirectAgreesWithBlock ==
    LET cp == chars(input)[1] IN
    /\ cp \in 128..255
           => /\ lookup_0_255(cp) = lookup(cp)
              /\ ~lookup_0_255(cp).some => ~lookup(cp).some
              /\ resolve(cp) = IF lookup_override(cp).some THEN lookup_override(cp)
                               ELSE lookup_0_255(cp)
    /\ (cp >= 128 /\ policy = Default /\ pc \in {"pass2", "returned", "done"})
           => /\ resolve(cp).some => capacity = Len(resolve(cp).val)
              /\ ~resolve(cp).some => capacity = Len(input)
              /\ pc # "pass2" => out = resolve(cp).val

\* U+00E9 is "e" in both tables and comes out as "e"
C20_Witness ==
    /\ pc = "done"
    /\ policy = Default
    /\ input = to_str(<<233>>)
    /\ lookup_0_255(233) = Some(<<101>>)
    /\ lookup(233) = Some(<<101>>)
    /\ capacity = 1
    /\ out = <<101>>

\* the output for the first k code points of s followed by the output for
\* the rest, each transliterated on its own under policy p
OutputOfParts(s, p, k) ==
    LET cps == chars(s)
        a   == to_str(SubSeq(cps, 1, k))
        b   == to_str(SubSeq(cps, k + 1, Len(cps)))
    IN  unidecode_with_policy(a, p) \o unidecode_with_policy(b, p)

\* C21: under every policy other than Strict, the output a call returns equals,
\* for every way of cutting its input into two strings a and b, the output
\* for a followed by the output for b, whether a, b or the whole input take
\* the ASCII fast path or have ASCII runs batched.
C21_ContextFree ==
    (pc = "returned" /\ policy.kind # "Strict")
        => /\ error_index = None
           /\ \A k \in 0..Len(chars(input)) : out = OutputOfParts(input, policy, k)

\* "aa" then e-acute cut after the first "a": a takes the fast path, b has an
\* ASCII run, and the whole input batches "aa" across the cut
C21_Witness ==
    /\ pc = "returned"
    /\ policy = Preserve
    /\ input = to_str(<<97, 97, 233>>)
    /\ str_is_ascii(to_str(<<97>>))
    /\ ~str_is_ascii(to_str(<<97, 233>>))
    /\ out = <<97, 97, 101>>
    /\ out = OutputOfParts(input, policy, 1)

====
